---- MODULE Spec2Model ----
(***************************************************************************)
(* Model of HistoricData.py: the rate-limit-aware fetch loop               *)
(* (get_market_data), the metrics extraction (extract_price_cap_metrics),  *)
(* the two writers (save_results_to_csv, save_histogram_image) and the     *)
(* batch driver (main).                                                    *)
(*                                                                         *)
(* Conventions.                                                            *)
(*  - A Python value that may be None is a record [isNone, val]; a list is *)
(*    a sequence, a dict a function from its keys.                         *)
(*  - A time series point [timestamp, value] is the pair <<ts, v>>, so     *)
(*    Python's p[1] is p[2] here.  Values are integers.                    *)
(*  - X-RateLimit-Reset is kept relative to the clock: the number stored   *)
(*    is reset_time - time.time() as read at line 35, the only way the     *)
(*    code uses either quantity.                                           *)
(*  - Calendar dates are day ordinals.                                     *)
(***************************************************************************)
EXTENDS Integers, Sequences, FiniteSets, TLC

\* ---------------------------------------------------------------- bounds
MaxLines == 2     \* longest input.txt, in lines
MaxRuns == 2      \* runs of main over the same input.txt
MaxLen == 3       \* longest price sequence handed to extract
MaxCapLen == 2    \* longest market-cap sequence handed to extract
MaxVal == 1       \* values of a point are 0..MaxVal

\* ------------------------------------------------------- Python values
None == [isNone |-> TRUE, val |-> <<>>]

List(s) == [isNone |-> FALSE, val |-> s]

\* Python truthiness of a list-or-None: `not x` is ~Truthy(x).
Truthy(x) == ~x.isNone /\ x.val # <<>>

\* dict.get(key, default)
Get(d, key, default) == IF key \in DOMAIN d THEN d[key] ELSE default

RECURSIVE MaxOf(_)
\* max(prices_only): a left-to-right scan keeping the largest value.
MaxOf(s) ==
    IF Len(s) = 1 THEN s[1]
    ELSE LET m == MaxOf(SubSeq(s, 1, Len(s) - 1))
         IN IF s[Len(s)] > m THEN s[Len(s)] ELSE m

RECURSIVE MinOf(_)
\* min(prices_only)
MinOf(s) ==
    IF Len(s) = 1 THEN s[1]
    ELSE LET m == MinOf(SubSeq(s, 1, Len(s) - 1))
         IN IF s[Len(s)] < m THEN s[Len(s)] ELSE m

\* [p[1] for p in points]
ValuesOf(points) == [i \in 1..Len(points) |-> points[i][2]]

\* ------------------------------------------- extract_price_cap_metrics
\* Variant of line 59 that also wants two prices: len(prices) < 2.
NoData_short(prices, market_caps) ==
    ~Truthy(prices) \/ ~Truthy(market_caps) \/ Len(prices.val) < 2

\* line 59: if not prices or not market_caps
NoData(prices, market_caps) == ~Truthy(prices) \/ ~Truthy(market_caps)

\* Variant of line 71 that looks at the two endpoints only.
highest_price_ends(prices) ==
    IF prices[1][2] > prices[Len(prices)][2] THEN prices[1][2] ELSE prices[Len(prices)][2]

\* line 71
highest_price(prices) == MaxOf(ValuesOf(prices))

\* line 72
lowest_price(prices) == MinOf(ValuesOf(prices))

\* Variant of lines 62 and 65 that takes the point of the earliest timestamp.
first_value_by_time(points) ==
    LET i == CHOOSE j \in 1..Len(points) :
                 \A k \in 1..Len(points) :
                     points[j][1] < points[k][1] \/ (points[j][1] = points[k][1] /\ j <= k)
    IN points[i][2]

\* lines 62 and 65: prices[0][1], market_caps[0][1]
first_value(points) == points[1][2]

\* lines 63 and 66: prices[-1][1], market_caps[-1][1]
last_value(points) == points[Len(points)][2]

\* line 74
price_change(price_start, price_end) == price_end - price_start

\* Variant of line 75 with the operands exchanged.
market_cap_change_reversed(market_cap_start, market_cap_end) == market_cap_start - market_cap_end

\* line 75
market_cap_change(market_cap_start, market_cap_end) == market_cap_end - market_cap_start

\* lines 57-88.  The result is None or the metrics dict.
extract_price_cap_metrics(prices, market_caps) ==
    IF NoData(prices, market_caps) THEN [isNone |-> TRUE]
    ELSE LET p == prices.val
             c == market_caps.val
         IN [isNone            |-> FALSE,
             start_price       |-> first_value(p),
             end_price         |-> last_value(p),
             highest_price     |-> highest_price(p),
             lowest_price      |-> lowest_price(p),
             price_change      |-> price_change(first_value(p), last_value(p)),
             start_cap         |-> first_value(c),
             end_cap           |-> last_value(c),
             market_cap_change |-> market_cap_change(first_value(c), last_value(c)),
             prices            |-> p,
             market_caps       |-> c]

\* ------------------------------------------------- the provider's answers
\* Bodies of a 200 response (response.json()), as dicts.
DataBody == ("prices" :> << <<1, 1>>, <<2, 2>> >>) @@ ("market_caps" :> << <<1, 2>>, <<2, 1>> >>)

\* A body whose two series differ in length.
UnevenBody == ("prices" :> << <<1, 1>>, <<2, 2>>, <<3, 0>> >>) @@ ("market_caps" :> << <<1, 1>> >>)

EmptyPricesBody == ("prices" :> <<>>) @@ ("market_caps" :> << <<1, 1>> >>)

EmptyCapsBody == ("prices" :> << <<1, 1>> >>) @@ ("market_caps" :> <<>>)

NoPricesBody == ("market_caps" :> << <<1, 1>> >>)

NoCapsBody == ("prices" :> << <<1, 1>> >>)

Bodies == {DataBody, UnevenBody, EmptyPricesBody, EmptyCapsBody, NoPricesBody, NoCapsBody}

NoHeaders == <<>>

QuotaLeft == ("X-RateLimit-Remaining" :> 1) @@ ("X-RateLimit-Reset" :> 20)

\* Quota used up; the reset lies `delta` seconds from now (negative: in the past).
QuotaGone(delta) == ("X-RateLimit-Remaining" :> 0) @@ ("X-RateLimit-Reset" :> delta)

QuotaGoneNoReset == ("X-RateLimit-Remaining" :> 0)

\* Reset times a rate-limited response declares, relative to now.
ResetDeltas == {-11, 20}

\* What one requests.get can meet: an exception raised by the transport
\* ("exception"), a non-success status ("bad_status"), or a 200 response.
Responses ==
    {[status |-> s, headers |-> NoHeaders, data |-> <<>>] : s \in {"exception", "bad_status"}}
    \cup {[status |-> "ok", headers |-> NoHeaders, data |-> b] : b \in Bodies}
    \cup {[status |-> "ok", headers |-> QuotaLeft, data |-> DataBody]}
    \cup {[status |-> "ok", headers |-> QuotaGone(d), data |-> DataBody] : d \in ResetDeltas}
    \cup {[status |-> "ok", headers |-> QuotaGoneNoReset, data |-> NoPricesBody]}

\* ------------------------------------------------------- get_market_data
\* line 25
retries == 3

\* lines 28-29, 46: requests.get or raise_for_status raised a RequestException.
RequestFailed(r) == r.status # "ok"

\* Variant of line 32 with the default 0.
remaining_default0(r) == Get(r.headers, "X-RateLimit-Remaining", 0)

\* line 32
remaining(r) == Get(r.headers, "X-RateLimit-Remaining", 1)

\* lines 33 and 35: reset_time - time.time(); an absent header defaults to now.
sleep_time(r) == Get(r.headers, "X-RateLimit-Reset", 0)

\* Variant of line 34 with the comparison the wrong way round.
RateLimited_negative(r) == remaining(r) < 0

\* line 34
RateLimited(r) == remaining(r) = 0

\* time.sleep(secs) raises ValueError for a negative length.
SleepRaises(secs) == secs < 0

\* line 41
HasFields(data) == "prices" \in DOMAIN data /\ "market_caps" \in DOMAIN data

\* Variant of lines 40-45: return data.get('prices'), data.get('market_caps').
ParseBody_get(data) ==
    [prices      |-> IF "prices" \in DOMAIN data THEN List(data["prices"]) ELSE None,
     market_caps |-> IF "market_caps" \in DOMAIN data THEN List(data["market_caps"]) ELSE None]

\* lines 40-45: the pair returned for a parsed body.
ParseBody(data) ==
    IF HasFields(data)
    THEN [prices |-> List(data["prices"]), market_caps |-> List(data["market_caps"])]
    ELSE [prices |-> None, market_caps |-> None]

\* Variant of line 48 that gives up one attempt early.
AttemptsRemain_early(a) == a < retries - 2

\* Variant of line 48 that finds an attempt left after the last one.
AttemptsRemain_always(a) == a < retries

\* line 48
AttemptsRemain(a) == a < retries - 1

\* Variant of lines 26 and 38 as a loop that counts only failed requests:
\* a rate-limited response leaves the attempt number as it is.
AfterContinue_keep(r, a) == IF RequestFailed(r) THEN a + 1 ELSE a

\* lines 26, 38 and 50: the for loop hands out the next attempt number,
\* after the continue of line 38 as after the retry sleep of line 50.
AfterContinue(r, a) == a + 1

NonePair == [prices |-> None, market_caps |-> None]

Sleep(why, secs) == [why |-> why, secs |-> secs]

\* lines 27-53: one iteration of the for loop on response r.  The outcome is
\* a return of a pair, a continue into the next iteration, or an exception
\* that leaves the function; `sleep` lists the time.sleep calls made.
Attempt(r, a) ==
    IF RequestFailed(r)
    THEN IF AttemptsRemain(a)
         THEN [kind |-> "continue", pair |-> NonePair, sleep |-> <<Sleep("retry", 5)>>]
         ELSE [kind |-> "return", pair |-> NonePair, sleep |-> <<>>]
    ELSE IF RateLimited(r)
         THEN IF SleepRaises(sleep_time(r) + 10)
              THEN [kind |-> "raise", pair |-> NonePair, sleep |-> <<>>]
              ELSE [kind |-> "continue", pair |-> NonePair,
                    sleep |-> <<Sleep("ratelimit", sleep_time(r) + 10)>>]
         ELSE [kind |-> "return", pair |-> ParseBody(r.data), sleep |-> <<>>]

\* ------------------------------------------ save_histogram_image, csv
\* lines 110-125: dates has one entry per price, caps_only one per market
\* cap; ax2.plot(dates, caps_only) raises ValueError when the two differ in
\* length, before plt.savefig is reached.
PlotRaises(prices, market_caps) == Len(prices) # Len(market_caps)

\* lines 98-99
HeaderRow ==
    [kind  |-> "header",
     names |-> <<"Coin Name", "Start Price", "End Price", "Highest Price", "Lowest Price",
                 "Price Change", "Start Market Cap", "End Market Cap", "Market Cap Change">>]

\* lines 100-102
DataRow(coin_id, results) ==
    [kind  |-> "data",
     coin  |-> coin_id,
     cells |-> <<results.start_price, results.end_price, results.highest_price,
                 results.lowest_price, results.price_change, results.start_cap,
                 results.end_cap, results.market_cap_change>>]

\* Variant of line 95 opening the file with mode 'w'.
save_results_to_csv_truncate(file, results, coin_id) == <<HeaderRow, DataRow(coin_id, results)>>

\* Variant of lines 97-99 without the file.tell() test.
save_results_to_csv_header(file, results, coin_id) ==
    file \o <<HeaderRow, DataRow(coin_id, results)>>

\* lines 95-102: the file after one call; mode 'a' keeps what is there, and
\* file.tell() = 0 exactly when the file is empty (or was just created).
save_results_to_csv(file, results, coin_id) ==
    (IF Len(file) = 0 THEN <<HeaderRow>> ELSE <<>>) \o file \o <<DataRow(coin_id, results)>>

NoChart == [exists |-> FALSE]

\* lines 136-140: the image savefig writes, replacing any earlier one.
Chart(prices, market_caps, w) ==
    [exists |-> TRUE, coin |-> w.coin_id, start_date |-> w.start_date,
     end_date |-> w.end_date, prices |-> prices, market_caps |-> market_caps]

\* --------------------------------------------------------------- input
Coins == {"bitcoin"}

\* datetime.strptime(token, "%Y-%m-%d"): the day ordinal of a well-formed date.
DateOrdinal == ("2024-01-01" :> 738886)

\* A line of input.txt after strip().split(): its whitespace-separated tokens.
InputLines ==
    { <<>>, <<"onlyonetoken">>, <<"bitcoin", "01/01/2024">> }
    \cup { <<c, "2024-01-01">> : c \in Coins }

RECURSIVE SeqsUpTo(_, _)
SeqsUpTo(S, n) ==
    IF n = 0 THEN { <<>> }
    ELSE LET shorter == SeqsUpTo(S, n - 1)
         IN shorter \cup { Append(s, x) : s \in { t \in shorter : Len(t) = n - 1 }, x \in S }

\* line 149: not line.strip()
Blank(line) == Len(line) = 0

\* lines 152-153: the unpacking needs exactly two tokens, strptime a date.
WellFormed(line) == Len(line) = 2 /\ line[2] \in DOMAIN DateOrdinal

\* lines 152-155
Window(line) ==
    [coin_id |-> line[1], start_date |-> DateOrdinal[line[2]],
     end_date |-> DateOrdinal[line[2]] + 7]

NoWindow == [coin_id |-> "", start_date |-> 0, end_date |-> 0]

\* ---------------------------------------------------------------- state
VARIABLES
    lines,       \* input.txt as read at line 146
    run,         \* which run of main over the input this is
    idx,         \* the line the for loop of main is at (1-based)
    pc,          \* where main is
    cur,         \* coin_id, start_date, end_date of the line being processed
    attempt,     \* loop variable of get_market_data
    hist,        \* responses received by the get_market_data call of this line
    sleeps,      \* time.sleep calls made for this line, in order
    ret,         \* the pair get_market_data returned
    metrics,     \* result of extract_price_cap_metrics
    steps,       \* stages completed for this line, in order
    out,         \* last message printed by main for this line
    csv,         \* result_csv/<coin>_results.csv, a sequence of rows
    chart,       \* result_histogram/<coin>_histogram.png
    called,      \* lines of this run for which get_market_data was called
    fetched_ok,  \* per coin, fetches so far that returned two non-empty series
    in_prices,   \* extract in isolation: its arguments and result
    in_caps,
    result,
    epc

vars == <<lines, run, idx, pc, cur, attempt, hist, sleeps, ret, metrics, steps, out,
          csv, chart, called, fetched_ok, in_prices, in_caps, result, epc>>

extractVars == <<in_prices, in_caps, result, epc>>

mainVars == <<lines, run, idx, pc, cur, attempt, hist, sleeps, ret, metrics, steps, out,
              csv, chart, called, fetched_ok>>

files == <<csv, chart>>

NoMetrics == [isNone |-> TRUE]

InitMain ==
    /\ lines \in SeqsUpTo(InputLines, MaxLines)
    /\ run = 1
    /\ idx = 1
    /\ pc = "loop"
    /\ cur = NoWindow
    /\ attempt = 0
    /\ hist = <<>>
    /\ sleeps = <<>>
    /\ ret = NonePair
    /\ metrics = NoMetrics
    /\ steps = <<>>
    /\ out = ""
    /\ csv = [c \in Coins |-> <<>>]
    /\ chart = [c \in Coins |-> NoChart]
    /\ called = {}
    /\ fetched_ok = [c \in Coins |-> 0]

IdleExtract ==
    /\ in_prices = None
    /\ in_caps = None
    /\ result = NoMetrics
    /\ epc = "idle"

Init == InitMain /\ IdleExtract

\* ----------------------------------------------------------------- main
\* Locals of one loop iteration as they are before line 152 assigns them.
FreshLine ==
    /\ attempt' = 0
    /\ hist' = <<>>
    /\ sleeps' = <<>>
    /\ ret' = NonePair
    /\ metrics' = NoMetrics
    /\ steps' = <<>>

\* The exceptions the try block of main can meet, named by what raised them.
Errors == {"error: unpack", "error: strptime", "error: sleep length", "error: plot"}

\* Variant of lines 148-180 with the try block around the for loop: the
\* first error ends the run.
Except_abort(e) ==
    /\ out' = e
    /\ pc' = "done"
    /\ idx' = idx

\* lines 179-180: the handler prints the error e; the for loop goes on with
\* the next line.
Except(e) ==
    /\ out' = e
    /\ pc' = "loop"
    /\ idx' = idx + 1

\* line 162: continue
Continue ==
    /\ pc' = "loop"
    /\ idx' = idx + 1

\* lines 148-150: a blank line is passed over outside the try block.
SkipBlank ==
    /\ pc = "loop"
    /\ idx <= Len(lines)
    /\ Blank(lines[idx])
    /\ idx' = idx + 1
    /\ UNCHANGED <<lines, run, pc, cur, attempt, hist, sleeps, ret, metrics, steps, out,
                   csv, chart, called, fetched_ok, extractVars>>

\* lines 152-153 raising ValueError: wrong token count or unparseable date.
ParseError ==
    /\ pc = "loop"
    /\ idx <= Len(lines)
    /\ ~Blank(lines[idx])
    /\ ~WellFormed(lines[idx])
    /\ FreshLine
    /\ cur' = NoWindow
    /\ Except(IF Len(lines[idx]) # 2 THEN "error: unpack" ELSE "error: strptime")
    /\ UNCHANGED <<lines, run, csv, chart, called, fetched_ok, extractVars>>

\* lines 152-158: the line parses; get_market_data is entered.
CallFetch ==
    /\ pc = "loop"
    /\ idx <= Len(lines)
    /\ WellFormed(lines[idx])
    /\ FreshLine
    /\ cur' = Window(lines[idx])
    /\ out' = "fetching"
    /\ called' = called \cup {idx}
    /\ pc' = "fetch"
    /\ UNCHANGED <<lines, run, idx, csv, chart, fetched_ok, extractVars>>

\* lines 26-38, 46-50: an iteration that ends in continue or in the retry sleep.
FetchContinue ==
    /\ pc = "fetch"
    /\ attempt < retries
    /\ \E r \in Responses :
         LET o == Attempt(r, attempt)
         IN /\ o.kind = "continue"
            /\ hist' = Append(hist, r)
            /\ sleeps' = sleeps \o o.sleep
            /\ attempt' = AfterContinue(r, attempt)
    /\ UNCHANGED <<lines, run, idx, pc, cur, ret, metrics, steps, out, csv, chart, called,
                   fetched_ok, extractVars>>

\* lines 40-45, 51-53: an iteration that returns.
FetchReturn ==
    /\ pc = "fetch"
    /\ attempt < retries
    /\ \E r \in Responses :
         LET o == Attempt(r, attempt)
         IN /\ o.kind = "return"
            /\ hist' = Append(hist, r)
            /\ sleeps' = sleeps \o o.sleep
            /\ ret' = o.pair
    /\ steps' = Append(steps, "fetch")
    /\ pc' = "returned"
    /\ UNCHANGED <<lines, run, idx, cur, attempt, metrics, out, csv, chart, called,
                   fetched_ok, extractVars>>

\* line 37 raising ValueError: not a RequestException, so it leaves
\* get_market_data and reaches the handler of main.
FetchRaise ==
    /\ pc = "fetch"
    /\ attempt < retries
    /\ \E r \in Responses :
         /\ Attempt(r, attempt).kind = "raise"
         /\ hist' = Append(hist, r)
    /\ Except("error: sleep length")
    /\ UNCHANGED <<lines, run, cur, attempt, sleeps, ret, metrics, steps, csv, chart, called,
                   fetched_ok, extractVars>>

\* line 54: the for loop ran out of iterations.
FetchFallthrough ==
    /\ pc = "fetch"
    /\ attempt >= retries
    /\ ret' = NonePair
    /\ steps' = Append(steps, "fetch")
    /\ pc' = "returned"
    /\ UNCHANGED <<lines, run, idx, cur, attempt, hist, sleeps, metrics, out, csv, chart,
                   called, fetched_ok, extractVars>>

\* Variant of line 160: if prices is None or market_caps is None
Missing_isNone(prices, market_caps) == prices.isNone \/ market_caps.isNone

\* line 160: if not prices or not market_caps
Missing(prices, market_caps) == ~Truthy(prices) \/ ~Truthy(market_caps)

\* lines 160-162: no data, the line is given up without the pacing sleep.
SkipNoData ==
    /\ pc = "returned"
    /\ Missing(ret.prices, ret.market_caps)
    /\ out' = "nodata"
    /\ Continue
    /\ UNCHANGED <<lines, run, cur, attempt, hist, sleeps, ret, metrics, steps, csv, chart,
                   called, fetched_ok, extractVars>>

\* line 160 passed: both series are there.
GotData ==
    /\ pc = "returned"
    /\ ~Missing(ret.prices, ret.market_caps)
    /\ fetched_ok' = [fetched_ok EXCEPT ![cur.coin_id] = @ + 1]
    /\ pc' = "extract"
    /\ UNCHANGED <<lines, run, idx, cur, attempt, hist, sleeps, ret, metrics, steps, out,
                   csv, chart, called, extractVars>>

\* Variant of lines 165-171 with the two writers called in the other order:
\* the chart is drawn first.
Extract_chart_first ==
    /\ pc = "extract"
    /\ metrics' = extract_price_cap_metrics(ret.prices, ret.market_caps)
    /\ steps' = Append(steps, "extract")
    /\ IF metrics'.isNone
       THEN out' = "novalid" /\ pc' = "sleep"
       ELSE out' = out /\ pc' = "save_chart"
    /\ UNCHANGED <<lines, run, idx, cur, attempt, hist, sleeps, ret, csv, chart, called,
                   fetched_ok, extractVars>>

\* lines 165-167, 173-174
Extract ==
    /\ pc = "extract"
    /\ metrics' = extract_price_cap_metrics(ret.prices, ret.market_caps)
    /\ steps' = Append(steps, "extract")
    /\ IF metrics'.isNone
       THEN out' = "novalid" /\ pc' = "sleep"
       ELSE out' = out /\ pc' = "save_csv"
    /\ UNCHANGED <<lines, run, idx, cur, attempt, hist, sleeps, ret, csv, chart, called,
                   fetched_ok, extractVars>>

\* line 169
SaveCsv ==
    /\ pc = "save_csv"
    /\ csv' = [csv EXCEPT ![cur.coin_id] = save_results_to_csv(@, metrics, cur.coin_id)]
    /\ steps' = Append(steps, "csv")
    /\ pc' = "save_chart"
    /\ UNCHANGED <<lines, run, idx, cur, attempt, hist, sleeps, ret, metrics, out, chart,
                   called, fetched_ok, extractVars>>

\* lines 171-172
SaveChart ==
    /\ pc = "save_chart"
    /\ ~PlotRaises(ret.prices.val, ret.market_caps.val)
    /\ chart' = [chart EXCEPT ![cur.coin_id] = Chart(ret.prices.val, ret.market_caps.val, cur)]
    /\ steps' = Append(steps, "chart")
    /\ out' = "saved"
    /\ pc' = "sleep"
    /\ UNCHANGED <<lines, run, idx, cur, attempt, hist, sleeps, ret, metrics, csv, called,
                   fetched_ok, extractVars>>

\* line 171 raising: the plot rejects series of different lengths.
SaveChartRaises ==
    /\ pc = "save_chart"
    /\ PlotRaises(ret.prices.val, ret.market_caps.val)
    /\ Except("error: plot")
    /\ UNCHANGED <<lines, run, cur, attempt, hist, sleeps, ret, metrics, steps, csv, chart,
                   called, fetched_ok, extractVars>>

\* line 177, then the next iteration of the for loop
PacingSleep ==
    /\ pc = "sleep"
    /\ sleeps' = Append(sleeps, Sleep("pacing", 5))
    /\ pc' = "loop"
    /\ idx' = idx + 1
    /\ UNCHANGED <<lines, run, cur, attempt, hist, ret, metrics, steps, out, csv, chart,
                   called, fetched_ok, extractVars>>

\* line 148: the for loop is exhausted and main returns.
Finish ==
    /\ pc = "loop"
    /\ idx > Len(lines)
    /\ pc' = "done"
    /\ UNCHANGED <<lines, run, idx, cur, attempt, hist, sleeps, ret, metrics, steps, out,
                   csv, chart, called, fetched_ok, extractVars>>

\* lines 182-183: the program is started again on the same input.txt; the
\* files of the earlier run are still on disk.
Rerun ==
    /\ pc = "done"
    /\ run < MaxRuns
    /\ run' = run + 1
    /\ idx' = 1
    /\ pc' = "loop"
    /\ cur' = NoWindow
    /\ FreshLine
    /\ out' = ""
    /\ called' = {}
    /\ UNCHANGED <<lines, csv, chart, fetched_ok, extractVars>>

Next ==
    \/ SkipBlank
    \/ ParseError
    \/ CallFetch
    \/ FetchContinue
    \/ FetchReturn
    \/ FetchRaise
    \/ FetchFallthrough
    \/ SkipNoData
    \/ GotData
    \/ Extract
    \/ SaveCsv
    \/ SaveChart
    \/ SaveChartRaises
    \/ PacingSleep
    \/ Finish
    \/ Rerun

Spec == Init /\ [][Next]_vars

\* ------------------------------------------------- extract in isolation
\* Timestamps of the points handed to extract; sequences over them need not
\* be ascending.
TimeStamps == {1, 2}

Points == TimeStamps \X (0..MaxVal)

InitExtract ==
    /\ in_prices \in {None} \cup {List(s) : s \in SeqsUpTo(Points, MaxLen)}
    /\ in_caps \in {None} \cup {List(s) : s \in SeqsUpTo(Points, MaxCapLen)}
    /\ result = NoMetrics
    /\ epc = "ready"
    /\ lines = <<>>
    /\ run = 1
    /\ idx = 1
    /\ pc = "done"
    /\ cur = NoWindow
    /\ attempt = 0
    /\ hist = <<>>
    /\ sleeps = <<>>
    /\ ret = NonePair
    /\ metrics = NoMetrics
    /\ steps = <<>>
    /\ out = ""
    /\ csv = [c \in Coins |-> <<>>]
    /\ chart = [c \in Coins |-> NoChart]
    /\ called = {}
    /\ fetched_ok = [c \in Coins |-> 0]

\* lines 57-88 applied to the arguments drawn at the start.
CallExtract ==
    /\ epc = "ready"
    /\ result' = extract_price_cap_metrics(in_prices, in_caps)
    /\ epc' = "returned"
    /\ UNCHANGED <<in_prices, in_caps, mainVars>>

NextExtract == CallExtract

SpecExtract == InitExtract /\ [][NextExtract]_vars

\* =============================================================== claims
\* The vocabulary of the claims, stated on the responses themselves.
IsFailure(r) == r.status \in {"exception", "bad_status"}

IsLimited(r) ==
    /\ r.status = "ok"
    /\ "X-RateLimit-Remaining" \in DOMAIN r.headers
    /\ r.headers["X-RateLimit-Remaining"] = 0

BothFields(r) == {"prices", "market_caps"} \subseteq DOMAIN r.data

\* A successful response with quota available and both data fields.
IsGood(r) == r.status = "ok" /\ ~IsLimited(r) /\ BothFields(r)

\* A successful response with quota available that lacks a data field.
IsFieldless(r) == r.status = "ok" /\ ~IsLimited(r) /\ ~BothFields(r)

DataOf(r) == [prices |-> List(r.data["prices"]), market_caps |-> List(r.data["market_caps"])]

AllOf(h, P(_)) == \A i \in 1..Len(h) : P(h[i])

Front(h) == SubSeq(h, 1, Len(h) - 1)

Last(h) == h[Len(h)]

Has(log, x) == \E i \in 1..Len(log) : log[i] = x

\* main is between two lines (or through with the input).
BetweenLines == pc \in {"loop", "done"}

\* The non-blank line main has just finished with.
JustProcessed == BetweenLines /\ idx > 1 /\ ~Blank(lines[idx - 1])

WellFormedLines == {i \in 1..Len(lines) : WellFormed(lines[i])}

DataRows(file) == Cardinality({i \in 1..Len(file) : file[i].kind = "data"})

\* C1 (as claimed): rate-limited responses cost no attempt.  A call of
\* get_market_data that met k >= 0 rate-limited responses in a row returns
\* only on the response after them, and returns that response's data when
\* it is a success with quota available and both fields.
C1_RateLimitKeepsBudget ==
    (pc = "returned" /\ hist # <<>> /\ AllOf(Front(hist), IsLimited))
        => /\ ~IsLimited(Last(hist))
           /\ IsGood(Last(hist)) => ret = DataOf(Last(hist))

\* C2: n transport failures in a row and then a success with quota and
\* both fields: the call returns the success's data, which happens only
\* for n < 3; a call that met nothing but failures goes on until the
\* third, returns (None, None) on it and makes no fourth request.
C2_RetryBudget ==
    /\ (pc = "fetch" /\ AllOf(hist, IsFailure)) => Len(hist) < 3
    /\ (pc = "returned" /\ hist # <<>> /\ AllOf(hist, IsFailure))
           => Len(hist) = 3 /\ ret = NonePair
    /\ (pc = "returned" /\ hist # <<>> /\ AllOf(Front(hist), IsFailure) /\ IsGood(Last(hist)))
           => Len(hist) - 1 < 3 /\ ret = DataOf(Last(hist))

\* C2 witness: two failures, then a success whose data is returned.
C2_Witness ==
    /\ pc = "returned"
    /\ Len(hist) = 3
    /\ AllOf(Front(hist), IsFailure)
    /\ IsGood(Last(hist))
    /\ ret = DataOf(Last(hist))

\* C3 (as claimed): every non-blank line main has finished with ended in
\* the 5-second pacing sleep, whatever its outcome.
C3_PacingAfterEveryLine ==
    JustProcessed => sleeps # <<>> /\ Last(sleeps) = Sleep("pacing", 5)

\* C4: a successful response with quota available that lacks 'prices' or
\* 'market_caps' ends the call at once: it is the last response of the
\* call, no request follows it, and the call returned (None, None).
C4_MissingFieldsNotRetried ==
    \A i \in 1..Len(hist) :
        IsFieldless(hist[i]) => i = Len(hist) /\ pc # "fetch" /\ ret = NonePair

\* C4 witness: the first response lacks a field, two attempts are left,
\* and the call has returned.
C4_Witness ==
    /\ pc = "returned"
    /\ Len(hist) = 1
    /\ IsFieldless(hist[1])
    /\ attempt = 0

\* C5 (as claimed): a call of get_market_data never ends by raising, and
\* what it returns is both sequences or neither.
C5_FetchAlwaysReturnsPair ==
    /\ out # "error: sleep length"
    /\ pc = "returned" => (ret.prices.isNone <=> ret.market_caps.isNone)

\* C6 (as claimed): a line that ends in the error handler has had nothing
\* persisted, and every well-formed line of the input is fetched.
C6_ErrorPersistsNothing ==
    /\ (JustProcessed /\ out \in Errors) => ~Has(steps, "csv") /\ ~Has(steps, "chart")
    /\ pc = "done" => called = WellFormedLines

\* C6 (amended): a malformed line, or a line whose fetch raised, ends in
\* the handler with nothing fetched back and nothing persisted; a line
\* whose chart could not be drawn ends there with its CSV row appended and
\* its chart not written.  The run is never aborted: the well-formed lines
\* passed so far have all been fetched, and all of them when main is done.
C6_ErrorIsolated ==
    /\ (JustProcessed /\ out \in Errors)
         => /\ ~Has(steps, "chart")
            /\ Has(steps, "csv") <=> out = "error: plot"
            /\ out \in {"error: unpack", "error: strptime"} => steps = <<>>
    /\ BetweenLines => called = {i \in WellFormedLines : i < idx}
    /\ pc = "done" => called = WellFormedLines

\* C6 witness: the first line was malformed and the fetch of the second,
\* well-formed line is under way.
C6_Witness ==
    /\ pc = "fetch"
    /\ idx = 2
    /\ ~Blank(lines[1])
    /\ ~WellFormed(lines[1])
    /\ called = {2}

\* C7: extract is entered, and a CSV row or a chart written, only for a
\* fetch that returned two non-empty sequences; no step changes a file
\* otherwise.
C7_PersistOnlyWithData ==
    /\ []((pc \in {"extract", "save_csv", "save_chart"} \/ Has(steps, "extract")
              \/ ~metrics.isNone \/ Has(steps, "csv") \/ Has(steps, "chart"))
            => Truthy(ret.prices) /\ Truthy(ret.market_caps))
    /\ []((Has(steps, "csv") \/ Has(steps, "chart")) => ~metrics.isNone)
    /\ [][files' # files
            => Truthy(ret.prices) /\ Truthy(ret.market_caps) /\ ~metrics.isNone]_vars

\* C7 witness: the fetch returned both fields, one of them empty, and the
\* line was given up with both files as they were.
C7_Witness ==
    /\ JustProcessed
    /\ out = "nodata"
    /\ ~ret.prices.isNone
    /\ ~ret.market_caps.isNone
    /\ csv["bitcoin"] = <<>>
    /\ ~chart["bitcoin"].exists

\* A write that appends one data row, after the header if the file was empty.
AppendsOneRow(old, new) ==
    \E row \in {new[Len(new)]} :
        /\ row.kind = "data"
        /\ new = (IF old = <<>> THEN <<HeaderRow>> ELSE old) \o <<row>>

\* C8: between lines a coin's CSV file holds one data row for each fetch of
\* that coin that returned data, over all runs; so after r runs of an input
\* naming the coin once, each with data, it holds r data rows.  A step that
\* changes the file appends exactly one data row and keeps the rows there.
C8_AppendOnePerRun ==
    /\ [](BetweenLines => \A c \in Coins : DataRows(csv[c]) = fetched_ok[c])
    /\ [](\A c \in Coins :
            (pc = "done" /\ Cardinality({i \in WellFormedLines : lines[i][1] = c}) = 1
                /\ fetched_ok[c] = run)
              => DataRows(csv[c]) = run)
    /\ [][\A c \in Coins :
            csv'[c] # csv[c] => csv'[c] # <<>> /\ AppendsOneRow(csv[c], csv'[c])]_vars

\* C8 witness: the second run of a one-line input is done and the file
\* holds two data rows.
C8_Witness ==
    /\ pc = "done"
    /\ run = 2
    /\ Len(lines) = 1
    /\ DataRows(csv["bitcoin"]) = 2

\* C9: extract returns None exactly when the prices or the market caps are
\* empty (or None), whatever the other holds, and a record otherwise.
C9_AbsentIffEmpty ==
    epc = "returned" =>
        (result.isNone <=> (\/ in_prices.isNone \/ in_prices.val = <<>>
                            \/ in_caps.isNone \/ in_caps.val = <<>>))

\* C9 witness: empty prices with market caps present give None.
C9_Witness ==
    /\ epc = "returned"
    /\ ~in_prices.isNone
    /\ in_prices.val = <<>>
    /\ Truthy(in_caps)
    /\ result.isNone

\* C10: highest_price and lowest_price are the largest and the smallest
\* value of the whole price sequence, hence bound both endpoints.
C10_HighLowOverAll ==
    (epc = "returned" /\ ~result.isNone) =>
        LET p == in_prices.val
            vs == {p[i][2] : i \in 1..Len(p)}
        IN /\ result.highest_price \in vs
           /\ \A v \in vs : result.highest_price >= v
           /\ result.lowest_price \in vs
           /\ \A v \in vs : result.lowest_price <= v
           /\ result.highest_price >= result.start_price
           /\ result.highest_price >= result.end_price
           /\ result.lowest_price <= result.start_price
           /\ result.lowest_price <= result.end_price

\* C10 witness: the highest price lies strictly inside the sequence.
C10_Witness ==
    /\ epc = "returned"
    /\ ~result.isNone
    /\ result.highest_price > result.start_price
    /\ result.highest_price > result.end_price

\* C11: price_change is end_price - start_price and market_cap_change is
\* end_cap - start_cap, the price endpoints read from the price sequence and
\* the cap endpoints from the market-cap sequence, whatever their lengths.
C11_ChangesAreDifferences ==
    (epc = "returned" /\ ~result.isNone) =>
        LET p == in_prices.val
            c == in_caps.val
        IN /\ result.price_change = p[Len(p)][2] - p[1][2]
           /\ result.market_cap_change = c[Len(c)][2] - c[1][2]
           /\ result.price_change = result.end_price - result.start_price
           /\ result.market_cap_change = result.end_cap - result.start_cap

\* C11 witness: sequences of different lengths, both changes non-zero and
\* different from each other.
C11_Witness ==
    /\ epc = "returned"
    /\ ~result.isNone
    /\ Len(in_prices.val) # Len(in_caps.val)
    /\ result.price_change # 0
    /\ result.market_cap_change # 0
    /\ result.price_change # result.market_cap_change

StageOrder == <<"fetch", "extract", "csv", "chart">>

\* C12: the stages of a line come in the order fetch, extract, CSV append,
\* chart write; requests are issued only in the fetch stage, before any
\* other stage of the line; the fetch of a line starts only at the head of
\* the loop, when the line before is finished with, and lines are taken in
\* the order of the file.
C12_StrictlySequential ==
    /\ [](steps = SubSeq(StageOrder, 1, Len(steps)))
    /\ [](pc = "fetch" => steps = <<>> /\ idx \in called)
    /\ [][(hist' # hist /\ hist' # <<>>) => pc = "fetch" /\ steps = <<>>]_vars
    /\ [][(called' # called /\ run' = run)
            => /\ pc = "loop"
               /\ called' = called \cup {idx}
               /\ \A i \in called : i < idx]_vars
    /\ [][idx' # idx => idx' = idx + 1 \/ (idx' = 1 /\ run' = run + 1)]_vars

\* C12 witness: the second line has gone through all four stages after the
\* first was fetched.
C12_Witness ==
    /\ pc = "sleep"
    /\ idx = 2
    /\ called = {1, 2}
    /\ steps = StageOrder

\* The step that receives response r in a call of get_market_data.
Receives(r) == hist' = Append(hist, r)

\* C13: a transport failure on attempt 1 or 2 is followed by exactly one
\* 5-second sleep and the call goes on; a failure on attempt 3 ends the
\* call with (None, None) and no sleep; a successful response brings no
\* 5-second retry sleep.
C13_RetrySleep ==
    [][\A r \in Responses :
         Receives(r) =>
            /\ (IsFailure(r) /\ Len(hist) < 2)
                   => sleeps' = Append(sleeps, Sleep("retry", 5)) /\ pc' = "fetch"
            /\ (IsFailure(r) /\ Len(hist) = 2)
                   => sleeps' = sleeps /\ pc' = "returned" /\ ret' = NonePair
            /\ ~IsFailure(r)
                   => \A i \in 1..Len(sleeps') : i > Len(sleeps) => sleeps'[i].why # "retry"]_vars

\* C13 witness: the third attempt failed after two retry sleeps and the
\* call returned.
C13_Witness ==
    /\ pc = "returned"
    /\ Len(hist) = 3
    /\ AllOf(hist, IsFailure)
    /\ sleeps = <<Sleep("retry", 5), Sleep("retry", 5)>>

\* reset_time - now of a response, an absent header standing for now.
ResetIn(r) ==
    IF "X-RateLimit-Reset" \in DOMAIN r.headers THEN r.headers["X-RateLimit-Reset"] ELSE 0

\* C14 (as claimed): a successful response with remaining quota 0 makes the
\* call sleep reset_time - now + 10 seconds, and nothing else happens in
\* that step; a successful response with other quota brings no rate-limit
\* sleep.
C14_RateLimitSleep ==
    [][\A r \in Responses :
         Receives(r) =>
            /\ IsLimited(r) => sleeps' = Append(sleeps, Sleep("ratelimit", ResetIn(r) + 10))
            /\ (r.status = "ok" /\ ~IsLimited(r)) => sleeps' = sleeps]_vars

\* C15: a CSV file that is not empty starts with the header row and holds
\* no other header row.
C15_OneHeaderFirst ==
    \A c \in Coins :
        csv[c] # <<>> =>
            /\ csv[c][1] = HeaderRow
            /\ \A i \in 2..Len(csv[c]) : csv[c][i].kind = "data"

\* C15 witness: a file written twice.
C15_Witness ==
    /\ Len(csv["bitcoin"]) = 3
    /\ DataRows(csv["bitcoin"]) = 2

\* C16: a successful response without X-RateLimit-Remaining brings no sleep
\* and is parsed in the same attempt, the call returning its fields or
\* (None, None); a response with remaining 0 and no X-RateLimit-Reset takes
\* now for the reset time, so the sleep is the 10-second buffer.
C16_AbsentHeaders ==
    [][\A r \in Responses :
         Receives(r) =>
            /\ (r.status = "ok" /\ "X-RateLimit-Remaining" \notin DOMAIN r.headers)
                   => /\ sleeps' = sleeps
                      /\ pc' = "returned"
                      /\ ret' = IF BothFields(r) THEN DataOf(r) ELSE NonePair
            /\ (IsLimited(r) /\ "X-RateLimit-Reset" \notin DOMAIN r.headers)
                   => sleeps' = Append(sleeps, Sleep("ratelimit", 10))]_vars

\* C16 witness: the data of a response without rate-limit headers was
\* returned after a rate-limited response without reset header.
C16_Witness ==
    /\ pc = "returned"
    /\ Len(hist) = 2
    /\ IsLimited(hist[1])
    /\ DOMAIN hist[1].headers = {"X-RateLimit-Remaining"}
    /\ DOMAIN hist[2].headers = {}
    /\ IsGood(hist[2])
    /\ ret = DataOf(hist[2])
    /\ sleeps = <<Sleep("ratelimit", 10)>>

\* C17: start and end values are those of the first and of the last element
\* in the order given, ascending timestamps or not; the record holds the
\* two sequences as given, and the call leaves its arguments alone.
C17_OrderAsGiven ==
    /\ []((epc = "returned" /\ ~result.isNone) =>
            LET p == in_prices.val
                c == in_caps.val
            IN /\ result.start_price = p[1][2]
               /\ result.end_price = p[Len(p)][2]
               /\ result.start_cap = c[1][2]
               /\ result.end_cap = c[Len(c)][2]
               /\ result.prices = p
               /\ result.market_caps = c)
    /\ [][in_prices' = in_prices /\ in_caps' = in_caps]_vars

\* C17 witness: timestamps descend, and the first element is not the one of
\* the earliest timestamp.
C17_Witness ==
    /\ epc = "returned"
    /\ ~result.isNone
    /\ Len(in_prices.val) = 2
    /\ in_prices.val[1][1] > in_prices.val[2][1]
    /\ in_prices.val[1][2] # in_prices.val[2][2]
    /\ result.start_price = in_prices.val[1][2]

C19_DataOnlyFromGoodResponse ==
    pc = "returned" =>
        /\ ret # NonePair => hist # <<>> /\ IsGood(Last(hist)) /\ ret = DataOf(Last(hist))
        /\ (hist # <<>> /\ IsLimited(Last(hist))) => ret = NonePair

\* C19 witness: a rate-limited response whose body held both fields was
\* passed over and the data of the next response returned.
C19_Witness ==
    /\ pc = "returned"
    /\ Len(hist) = 2
    /\ IsLimited(hist[1])
    /\ BothFields(hist[1])
    /\ IsGood(hist[2])
    /\ Truthy(ret.prices)
    /\ ret = DataOf(hist[2])

====
